---- MODULE Spec2Model ----
(***************************************************************************)
(* Model of LR2/task2.cpp: the ChineseWall class (access matrix, object    *)
(* owners, conflict classes) and the main() driver that constructs one     *)
(* engine, assigns an owner to every object, records the conflict pairs    *)
(* and then runs the command loop (start, read, write, report, brief_case, *)
(* exit).                                                                  *)
(*                                                                         *)
(* The engine is a record `wall`; every member function is an operator     *)
(* from an engine value (and the arguments) to the result of the call:     *)
(* the returned bool, whether a line went to std::cerr, and the engine     *)
(* after the call.                                                         *)
(***************************************************************************)
EXTENDS Integers, FiniteSets, Sequences, TLC

\* Largest counts entered at the three first prompts of main().
MaxSubjects == 2
MaxObjects == 2
MaxFirms == 2
\* Largest access matrix (subjects times objects) the runs construct.
MaxCells == 4
\* Largest number of conflict pairs entered at the fourth prompt.
MaxConflictPairs == 1

VARIABLES
    wall,           \* the ChineseWall instance of main()
    pc,             \* position of main(): "owners", "conflicts", "commands", "exited", "crashed"
    i,              \* loop counter of the two setup loops
    conflictCount,  \* number of conflict pairs announced by the user
    lastOp          \* the last call main() made and what it produced

vars == <<wall, pc, i, conflictCount, lastOp>>

(***************************************************************************)
(* Integral conversions.  `firm >= firms` compares an int with a size_t,   *)
(* so the int is converted to size_t (modulo 2^w); `count(i)` on a         *)
(* std::set<int> converts the size_t loop index to int.  The word width is *)
(* scaled to 16 bits: every value the model feeds in lies in               *)
(* -2^15 .. 2^15-1, where the scaled and the real conversions agree on     *)
(* which side of a small count the result falls.                           *)
(***************************************************************************)
WordModulus == 2^16

ToSizeT(x) == x % WordModulus

ToInt(u) == IF u % WordModulus >= WordModulus \div 2
            THEN (u % WordModulus) - WordModulus
            ELSE u % WordModulus

(***************************************************************************)
(* ChineseWall::ChineseWall(n, m, f)                                       *)
(***************************************************************************)
ChineseWall(n, m, f) ==
    [subjects        |-> n,
     objects         |-> m,
     firms           |-> f,
     accessMatrix    |-> [s \in 0..(n-1) |-> [o \in 0..(m-1) |-> FALSE]],
     objectOwners    |-> [o \in 0..(m-1) |-> 0],
     conflictClasses |-> [k \in 0..(f-1) |-> {}]]

(***************************************************************************)
(* void ChineseWall::start()                                               *)
(***************************************************************************)
\* Variant: only the first row is cleared.
start_firstRow(w) ==
    [w EXCEPT !.accessMatrix =
        [s \in DOMAIN w.accessMatrix |->
            IF s = 0 THEN [o \in DOMAIN w.accessMatrix[s] |-> FALSE]
            ELSE w.accessMatrix[s]]]

start(w) ==
    [w EXCEPT !.accessMatrix =
        [s \in DOMAIN w.accessMatrix |->
            [o \in DOMAIN w.accessMatrix[s] |-> FALSE]]]

\* Result of a bool member function.
Result(r, d, f, w) == [ret |-> r, diag |-> d, fault |-> f, wall |-> w]

(***************************************************************************)
(* bool ChineseWall::read(subject, object)                                 *)
(*                                                                         *)
(* The scan evaluates conflictClasses[objectOwner] only for a subject i    *)
(* with accessMatrix[i][object] set (short-circuit &&).  When objectOwner  *)
(* is no index of conflictClasses (firms = 0: the vector is empty and the  *)
(* owner is the default 0) that evaluation reads a std::set through the    *)
(* null data pointer of an empty vector, which ends the process (fault).   *)
(***************************************************************************)
readHit(w, object) ==
    {k \in 0..(w.subjects-1) : w.accessMatrix[k][object]}

\* Variant: an out-of-range request is refused without a line on std::cerr.
read_silent(w, subject, object) ==
    IF subject >= w.subjects \/ object >= w.objects
    THEN Result(FALSE, FALSE, FALSE, w)
    ELSE LET objectOwner == w.objectOwners[object] IN
         IF readHit(w, object) # {} /\ objectOwner \notin DOMAIN w.conflictClasses
         THEN Result(FALSE, FALSE, TRUE, w)
         ELSE IF \E k \in readHit(w, object) :
                    ToInt(k) \in w.conflictClasses[objectOwner]
         THEN Result(FALSE, FALSE, FALSE, w)
         ELSE Result(TRUE, FALSE, FALSE,
                     [w EXCEPT !.accessMatrix[subject][object] = TRUE])

\* Variant: the access is recorded before the scan, so a refusal keeps it.
read_markFirst(w, subject, object) ==
    IF subject >= w.subjects \/ object >= w.objects
    THEN Result(FALSE, TRUE, FALSE, w)
    ELSE LET objectOwner == w.objectOwners[object]
             marked == [w EXCEPT !.accessMatrix[subject][object] = TRUE] IN
         IF readHit(w, object) # {} /\ objectOwner \notin DOMAIN w.conflictClasses
         THEN Result(FALSE, FALSE, TRUE, w)
         ELSE IF \E k \in readHit(w, object) :
                    ToInt(k) \in w.conflictClasses[objectOwner]
         THEN Result(FALSE, FALSE, FALSE, marked)
         ELSE Result(TRUE, FALSE, FALSE, marked)

\* Variant: an accepted read marks the object for every subject.
read_markColumn(w, subject, object) ==
    IF subject >= w.subjects \/ object >= w.objects
    THEN Result(FALSE, TRUE, FALSE, w)
    ELSE LET objectOwner == w.objectOwners[object] IN
         IF readHit(w, object) # {} /\ objectOwner \notin DOMAIN w.conflictClasses
         THEN Result(FALSE, FALSE, TRUE, w)
         ELSE IF \E k \in readHit(w, object) :
                    ToInt(k) \in w.conflictClasses[objectOwner]
         THEN Result(FALSE, FALSE, FALSE, w)
         ELSE Result(TRUE, FALSE, FALSE,
                     [w EXCEPT !.accessMatrix =
                         [s \in DOMAIN w.accessMatrix |->
                             [w.accessMatrix[s] EXCEPT ![object] = TRUE]]])

\* Variant: the textbook rule, which looks at what the requester holds.
read_ownRow(w, subject, object) ==
    IF subject >= w.subjects \/ object >= w.objects
    THEN Result(FALSE, TRUE, FALSE, w)
    ELSE LET objectOwner == w.objectOwners[object] IN
         IF \E k \in 0..(w.objects-1) :
                /\ w.accessMatrix[subject][k]
                /\ w.objectOwners[k] # objectOwner
                /\ w.objectOwners[k] \in w.conflictClasses[objectOwner]
         THEN Result(FALSE, FALSE, FALSE, w)
         ELSE Result(TRUE, FALSE, FALSE,
                     [w EXCEPT !.accessMatrix[subject][object] = TRUE])

\* Variant: the scan leaves the requesting subject out (i != subject).
read_skipSelf(w, subject, object) ==
    IF subject >= w.subjects \/ object >= w.objects
    THEN Result(FALSE, TRUE, FALSE, w)
    ELSE LET objectOwner == w.objectOwners[object]
             others == readHit(w, object) \ {subject} IN
         IF others # {} /\ objectOwner \notin DOMAIN w.conflictClasses
         THEN Result(FALSE, FALSE, TRUE, w)
         ELSE IF \E k \in others :
                    ToInt(k) \in w.conflictClasses[objectOwner]
         THEN Result(FALSE, FALSE, FALSE, w)
         ELSE Result(TRUE, FALSE, FALSE,
                     [w EXCEPT !.accessMatrix[subject][object] = TRUE])

read(w, subject, object) ==
    IF subject >= w.subjects \/ object >= w.objects
    THEN Result(FALSE, TRUE, FALSE, w)
    ELSE LET objectOwner == w.objectOwners[object] IN
         IF readHit(w, object) # {} /\ objectOwner \notin DOMAIN w.conflictClasses
         THEN Result(FALSE, FALSE, TRUE, w)
         ELSE IF \E k \in readHit(w, object) :
                    ToInt(k) \in w.conflictClasses[objectOwner]
         THEN Result(FALSE, FALSE, FALSE, w)
         ELSE Result(TRUE, FALSE, FALSE,
                     [w EXCEPT !.accessMatrix[subject][object] = TRUE])

(***************************************************************************)
(* bool ChineseWall::write(subject, object)                                *)
(***************************************************************************)
writeTaint(w, subject, objectOwner) ==
    {k \in 0..(w.objects-1) :
        w.accessMatrix[subject][k] /\ w.objectOwners[k] # objectOwner}

\* Variant: the taint scan is left out.
write_noTaint(w, subject, object) ==
    IF subject >= w.subjects \/ object >= w.objects
    THEN Result(FALSE, TRUE, FALSE, w)
    ELSE read(w, subject, object)

\* Variant: a tainted write withdraws the entry the read recorded.
write_rollback(w, subject, object) ==
    IF subject >= w.subjects \/ object >= w.objects
    THEN Result(FALSE, TRUE, FALSE, w)
    ELSE LET r == read(w, subject, object) IN
         IF ~r.ret
         THEN r
         ELSE LET objectOwner == r.wall.objectOwners[object]
                  taint == writeTaint(r.wall, subject, objectOwner) IN
              IF taint # {} /\ objectOwner \notin DOMAIN r.wall.conflictClasses
              THEN Result(FALSE, FALSE, TRUE, r.wall)
              ELSE IF \E k \in taint :
                         r.wall.objectOwners[k] \in r.wall.conflictClasses[objectOwner]
              THEN Result(FALSE, FALSE, FALSE,
                          [r.wall EXCEPT !.accessMatrix[subject][object] = FALSE])
              ELSE Result(TRUE, FALSE, FALSE,
                          [r.wall EXCEPT !.accessMatrix[subject][object] = TRUE])

\* Variant: holding any object of another owner taints, conflict or not.
write_taintAny(w, subject, object) ==
    IF subject >= w.subjects \/ object >= w.objects
    THEN Result(FALSE, TRUE, FALSE, w)
    ELSE LET r == read(w, subject, object) IN
         IF ~r.ret
         THEN r
         ELSE LET objectOwner == r.wall.objectOwners[object]
                  taint == writeTaint(r.wall, subject, objectOwner) IN
              IF taint # {}
              THEN Result(FALSE, FALSE, FALSE, r.wall)
              ELSE Result(TRUE, FALSE, FALSE,
                          [r.wall EXCEPT !.accessMatrix[subject][object] = TRUE])

write(w, subject, object) ==
    IF subject >= w.subjects \/ object >= w.objects
    THEN Result(FALSE, TRUE, FALSE, w)
    ELSE LET r == read(w, subject, object) IN
         IF ~r.ret
         THEN r
         ELSE LET objectOwner == r.wall.objectOwners[object]
                  taint == writeTaint(r.wall, subject, objectOwner) IN
              IF taint # {} /\ objectOwner \notin DOMAIN r.wall.conflictClasses
              THEN Result(FALSE, FALSE, TRUE, r.wall)
              ELSE IF \E k \in taint :
                         r.wall.objectOwners[k] \in r.wall.conflictClasses[objectOwner]
              THEN Result(FALSE, FALSE, FALSE, r.wall)
              ELSE Result(TRUE, FALSE, FALSE,
                          [r.wall EXCEPT !.accessMatrix[subject][object] = TRUE])

(***************************************************************************)
(* void ChineseWall::setObjectOwner(object, firm)                          *)
(***************************************************************************)
setObjectOwner(w, object, firm) ==
    IF object >= w.objects \/ ToSizeT(firm) >= w.firms
    THEN Result(FALSE, TRUE, FALSE, w)
    ELSE Result(TRUE, FALSE, FALSE, [w EXCEPT !.objectOwners[object] = firm])

(***************************************************************************)
(* void ChineseWall::addConflictClass(firm1, firm2)                        *)
(***************************************************************************)
\* Variant: only the first direction of the pair is inserted.
addConflictClass_oneWay(w, firm1, firm2) ==
    IF ToSizeT(firm1) >= w.firms \/ ToSizeT(firm2) >= w.firms
    THEN Result(FALSE, TRUE, FALSE, w)
    ELSE Result(TRUE, FALSE, FALSE,
                [w EXCEPT !.conflictClasses[firm1] = @ \cup {firm2}])

addConflictClass(w, firm1, firm2) ==
    IF ToSizeT(firm1) >= w.firms \/ ToSizeT(firm2) >= w.firms
    THEN Result(FALSE, TRUE, FALSE, w)
    ELSE LET c1 == [w.conflictClasses EXCEPT ![firm1] = @ \cup {firm2}]
             c2 == [c1 EXCEPT ![firm2] = @ \cup {firm1}] IN
         Result(TRUE, FALSE, FALSE, [w EXCEPT !.conflictClasses = c2])

(***************************************************************************)
(* Reports: the sequence of items printed to std::cout, in print order.    *)
(***************************************************************************)
RECURSIVE Collect_descending(_, _, _)
\* Variant: the loop runs from the highest index down.
Collect_descending(from, upto, keep) ==
    IF from >= upto THEN <<>>
    ELSE Collect_descending(from + 1, upto, keep)
            \o (IF from \in keep THEN <<from>> ELSE <<>>)

RECURSIVE Collect(_, _, _)
\* The indices k = from .. upto-1 that are in keep, in ascending order.
Collect(from, upto, keep) ==
    IF from >= upto THEN <<>>
    ELSE (IF from \in keep THEN <<from>> ELSE <<>>) \o Collect(from + 1, upto, keep)

Report(printed, d, items) == [printed |-> printed, diag |-> d, items |-> items]

reportSubject(w, subject) ==
    IF subject >= w.subjects
    THEN Report(FALSE, TRUE, <<>>)
    ELSE LET ids == Collect(0, w.objects,
                            {k \in 0..(w.objects-1) : w.accessMatrix[subject][k]}) IN
         Report(TRUE, FALSE,
                [n \in 1..Len(ids) |-> <<ids[n], w.objectOwners[ids[n]]>>])

reportObject(w, object) ==
    IF object >= w.objects
    THEN Report(FALSE, TRUE, <<>>)
    ELSE Report(TRUE, FALSE,
                Collect(0, w.subjects,
                        {k \in 0..(w.subjects-1) : w.accessMatrix[k][object]}))

briefCase(w, firm) ==
    IF ToSizeT(firm) >= w.firms
    THEN Report(FALSE, TRUE, <<>>)
    ELSE Report(TRUE, FALSE,
                Collect(0, w.objects,
                        {k \in 0..(w.objects-1) : w.objectOwners[k] = firm}))

(***************************************************************************)
(* main()                                                                  *)
(***************************************************************************)
Op(name, a, b, ret, d, items) ==
    [op |-> name, a |-> a, b |-> b, ret |-> ret, diag |-> d, items |-> items]

\* Values typed at the prompts: one index past the valid range is included,
\* and a negative number where the program reads an int.
SubjectInputs == 0..wall.subjects
ObjectInputs == 0..wall.objects
FirmInputs == (-1)..wall.firms

Init ==
    /\ \E n \in 0..MaxSubjects, m \in 0..MaxObjects, f \in 0..MaxFirms :
           /\ n * m <= MaxCells
           /\ wall = ChineseWall(n, m, f)
    /\ pc = "owners"
    /\ i = 0
    /\ conflictCount = 0
    /\ lastOp = Op("construct", 0, 0, "none", FALSE, <<>>)

\* for (i = 0; i < m; ++i) { cin >> firm; wall.setObjectOwner(i, firm); }
MainSetOwner ==
    /\ pc = "owners"
    /\ i < wall.objects
    /\ \E firm \in FirmInputs :
          LET r == setObjectOwner(wall, i, firm) IN
          /\ wall' = r.wall
          /\ lastOp' = Op("setObjectOwner", i, firm, "none", r.diag, <<>>)
    /\ i' = i + 1
    /\ UNCHANGED <<pc, conflictCount>>

\* cin >> conflictCount;
MainConflictCount ==
    /\ pc = "owners"
    /\ i >= wall.objects
    /\ \E c \in 0..MaxConflictPairs : conflictCount' = c
    /\ i' = 0
    /\ pc' = "conflicts"
    /\ UNCHANGED <<wall, lastOp>>

\* for (i = 0; i < conflictCount; ++i) { cin >> firm1 >> firm2; wall.addConflictClass(firm1, firm2); }
MainAddConflict ==
    /\ pc = "conflicts"
    /\ i < conflictCount
    /\ \E firm1 \in FirmInputs, firm2 \in FirmInputs :
          LET r == addConflictClass(wall, firm1, firm2) IN
          /\ wall' = r.wall
          /\ lastOp' = Op("addConflictClass", firm1, firm2, "none", r.diag, <<>>)
    /\ i' = i + 1
    /\ UNCHANGED <<pc, conflictCount>>

\* The conflict loop ends and the command loop begins.  The loop counter goes
\* out of scope and conflictCount is never read again: both are cleared.
MainEnterLoop ==
    /\ pc = "conflicts"
    /\ i >= conflictCount
    /\ pc' = "commands"
    /\ i' = 0
    /\ conflictCount' = 0
    /\ UNCHANGED <<wall, lastOp>>

CmdStart ==
    /\ pc = "commands"
    /\ wall' = start(wall)
    /\ lastOp' = Op("start", 0, 0, "none", FALSE, <<>>)
    /\ UNCHANGED <<pc, i, conflictCount>>

\* Outcome of a decision command: the printed word, or the end of the process.
Decide(name, s, o, r) ==
    /\ wall' = r.wall
    /\ pc' = IF r.fault THEN "crashed" ELSE pc
    /\ lastOp' = Op(name, s, o,
                    IF r.fault THEN "crash"
                    ELSE IF r.ret THEN "accepted" ELSE "refused",
                    r.diag, <<>>)
    /\ UNCHANGED <<i, conflictCount>>

CmdRead ==
    /\ pc = "commands"
    /\ \E s \in SubjectInputs, o \in ObjectInputs :
          Decide("read", s, o, read(wall, s, o))

CmdWrite ==
    /\ pc = "commands"
    /\ \E s \in SubjectInputs, o \in ObjectInputs :
          Decide("write", s, o, write(wall, s, o))

Show(name, a, r) ==
    /\ lastOp' = Op(name, a, 0, IF r.printed THEN "printed" ELSE "none",
                    r.diag, r.items)
    /\ UNCHANGED <<wall, pc, i, conflictCount>>

CmdReportSubject ==
    /\ pc = "commands"
    /\ \E s \in SubjectInputs : Show("reportSubject", s, reportSubject(wall, s))

CmdReportObject ==
    /\ pc = "commands"
    /\ \E o \in ObjectInputs : Show("reportObject", o, reportObject(wall, o))

CmdBriefCase ==
    /\ pc = "commands"
    /\ \E f \in FirmInputs : Show("briefCase", f, briefCase(wall, f))

CmdExit ==
    /\ pc = "commands"
    /\ pc' = "exited"
    /\ lastOp' = Op("exit", 0, 0, "none", FALSE, <<>>)
    /\ UNCHANGED <<wall, i, conflictCount>>

Next ==
    \/ MainSetOwner
    \/ MainConflictCount
    \/ MainAddConflict
    \/ MainEnterLoop
    \/ CmdStart
    \/ CmdRead
    \/ CmdWrite
    \/ CmdReportSubject
    \/ CmdReportObject
    \/ CmdBriefCase
    \/ CmdExit

Spec == Init /\ [][Next]_vars

(***************************************************************************)
(* Vocabulary of the properties.                                           *)
(***************************************************************************)
Subjects == 0..(wall.subjects - 1)
Objects == 0..(wall.objects - 1)
Firms == 0..(wall.firms - 1)

accessed(s, o) == wall.accessMatrix[s][o]
owner(o) == wall.objectOwners[o]
conflicts(a, b) == b \in wall.conflictClasses[a]

\* The step just taken was a call of the named member function.
Called(name) == lastOp'.op = name
OutOfRange(s, o) == s >= wall.subjects \/ o >= wall.objects

(***************************************************************************)
(* C1.  Chinese Wall safety: no subject holds two objects whose owners     *)
(* differ and are in conflict.                                             *)
(***************************************************************************)
ChineseWallSafety ==
    \A s \in Subjects : \A o1 \in Objects, o2 \in Objects :
        (accessed(s, o1) /\ accessed(s, o2) /\ owner(o1) # owner(o2))
            => ~conflicts(owner(o1), owner(o2))

(***************************************************************************)
(* C2.  A write that returns refusal leaves the access matrix as it was.   *)
(***************************************************************************)
RefusedWriteKeepsHistory ==
    [][(Called("write") /\ lastOp'.ret = "refused")
          => wall'.accessMatrix = wall.accessMatrix]_vars

(***************************************************************************)
(* C3.  A subject that holds an object of firm A is refused every write to *)
(* an object of a different firm B in conflict with A.                     *)
(***************************************************************************)
TaintedWriteRefused ==
    \A s \in Subjects : \A o1 \in Objects, o2 \in Objects :
        (accessed(s, o1) /\ owner(o1) # owner(o2)
                         /\ conflicts(owner(o1), owner(o2)))
            => LET r == write(wall, s, o2) IN ~r.ret /\ ~r.fault

TaintedWriteWasRefused ==
    /\ lastOp.op = "write"
    /\ lastOp.ret = "refused"
    /\ ~lastOp.diag
    /\ \E o1 \in Objects :
          /\ accessed(lastOp.a, o1)
          /\ owner(o1) # owner(lastOp.b)
          /\ conflicts(owner(o1), owner(lastOp.b))

(***************************************************************************)
(* C4.  Scenario 1: on a fresh engine with 2 subjects, 2 objects owned by  *)
(* firms 0 and 1 and the conflict pair (0,1), read(0,0), read(0,1),        *)
(* read(1,1) give accepted, refused, accepted.                             *)
(***************************************************************************)
Scenario1Engine ==
    LET w0 == ChineseWall(2, 2, 2)
        w1 == setObjectOwner(w0, 0, 0).wall
        w2 == setObjectOwner(w1, 1, 1).wall
    IN  addConflictClass(w2, 0, 1).wall

Scenario1Outcomes ==
    (pc = "commands" /\ wall = Scenario1Engine)
        => LET r1 == read(wall, 0, 0)
               r2 == read(r1.wall, 0, 1)
               r3 == read(r2.wall, 1, 1)
           IN  r1.ret /\ ~r2.ret /\ r3.ret

(***************************************************************************)
(* C5.  No call other than start turns an entry of the access matrix from  *)
(* true to false.                                                          *)
(***************************************************************************)
HistoryMonotone ==
    [][~Called("start")
          => \A s \in Subjects : \A o \in Objects :
                 accessed(s, o) => wall'.accessMatrix[s][o]]_vars

HistoryKeptByRefusal ==
    /\ lastOp.op \in {"read", "write"}
    /\ lastOp.ret = "refused"
    /\ \E s \in Subjects : \E o \in Objects : accessed(s, o)

(***************************************************************************)
(* C6.  start clears every entry, so every report is empty; it leaves      *)
(* owners and conflicts alone, and a second start changes nothing.         *)
(***************************************************************************)
StartResets ==
    [][Called("start")
          => /\ \A s \in Subjects : \A o \in Objects : ~wall'.accessMatrix[s][o]
             /\ \A s \in Subjects : reportSubject(wall', s).items = <<>>
             /\ \A o \in Objects : reportObject(wall', o).items = <<>>
             /\ wall'.objectOwners = wall.objectOwners
             /\ wall'.conflictClasses = wall.conflictClasses
             /\ start(wall') = wall']_vars

StartedAfresh ==
    /\ lastOp.op = "start"
    /\ wall.subjects >= 2
    /\ wall.objects >= 2
    /\ \A s \in Subjects : \A o \in Objects : ~accessed(s, o)

(***************************************************************************)
(* C7.  A read or write with an index out of range is refused, changes     *)
(* nothing and writes a diagnostic; a refusal with valid indices writes    *)
(* none.                                                                   *)
(***************************************************************************)
OutOfRangeRejected ==
    [][(Called("read") \/ Called("write"))
          => IF OutOfRange(lastOp'.a, lastOp'.b)
             THEN lastOp'.ret = "refused" /\ lastOp'.diag /\ wall' = wall
             ELSE lastOp'.ret = "refused" => ~lastOp'.diag]_vars

OutOfRangeReadSeen ==
    /\ lastOp.op = "read"
    /\ OutOfRange(lastOp.a, lastOp.b)
    /\ lastOp.ret = "refused"
    /\ lastOp.diag
    /\ \E s \in Subjects : \E o \in Objects : accessed(s, o)

(***************************************************************************)
(* C8.  A read that returns refusal leaves the engine as it was, and the   *)
(* same read issued again is refused again.                                *)
(***************************************************************************)
RefusedReadStable ==
    [][(Called("read") /\ lastOp'.ret = "refused")
          => /\ wall'.accessMatrix = wall.accessMatrix
             /\ LET r == read(wall', lastOp'.a, lastOp'.b) IN ~r.ret /\ ~r.fault]_vars

ReadRefusedByPolicy ==
    /\ lastOp.op = "read"
    /\ lastOp.ret = "refused"
    /\ ~OutOfRange(lastOp.a, lastOp.b)
    /\ ~accessed(lastOp.a, lastOp.b)

(***************************************************************************)
(* C9.  Every object has an owner that is a firm id in [0, firms), from    *)
(* construction on.                                                        *)
(***************************************************************************)
OwnersValid ==
    \A o \in Objects : owner(o) \in Firms

(***************************************************************************)
(* C10.  The conflict relation is symmetric in every state, and an         *)
(* addConflictClass call with an id out of range records nothing.          *)
(***************************************************************************)
ConflictsSymmetric ==
    /\ [](\A a \in Firms : \A b \in Firms : conflicts(a, b) <=> conflicts(b, a))
    /\ [][(Called("addConflictClass")
             /\ (lastOp'.a \notin Firms \/ lastOp'.b \notin Firms))
          => wall' = wall]_vars

ConflictPairRecorded ==
    /\ lastOp.op = "addConflictClass"
    /\ ~lastOp.diag
    /\ lastOp.a # lastOp.b
    /\ conflicts(lastOp.a, lastOp.b)
    /\ conflicts(lastOp.b, lastOp.a)

(***************************************************************************)
(* Two engines side by side: a decision command applied to an engine       *)
(* value, and what an observer of the command sees of it.                  *)
(***************************************************************************)
Decisions == {"read", "write"} \X SubjectInputs \X ObjectInputs

decide(w, d) ==
    IF d[1] = "read" THEN read(w, d[2], d[3]) ELSE write(w, d[2], d[3])

Outcome(r) == <<r.ret, r.fault, r.diag, r.wall.accessMatrix>>

(***************************************************************************)
(* C11.  A self-conflict changes nothing observable: started from the same *)
(* empty history, an engine and its twin that also received                *)
(* addConflictClass(f, f) give the same outcome and the same history for   *)
(* every two decisions in a row.                                           *)
(***************************************************************************)
SelfConflictNoOp ==
    (pc = "commands" /\ wall = start(wall))
        => \A f \in Firms :
              LET twin == addConflictClass(wall, f, f).wall IN
              \A d1 \in Decisions : \A d2 \in Decisions :
                  LET a1 == decide(wall, d1)
                      b1 == decide(twin, d1)
                      a2 == decide(a1.wall, d2)
                      b2 == decide(b1.wall, d2)
                  IN  Outcome(a1) = Outcome(b1) /\ Outcome(a2) = Outcome(b2)

(***************************************************************************)
(* C13.  Read rule: a read with valid indices is refused exactly when some *)
(* OTHER subject i has accessed the object and i is in the conflict set of *)
(* the object's owner; an accepted read leaves the entry set.              *)
(***************************************************************************)
OtherSubjectBlocks(s, o) ==
    \E k \in Subjects \ {s} :
        accessed(k, o) /\ owner(o) \in Firms /\ conflicts(owner(o), k)

ReadRuleOtherSubjects ==
    [][(Called("read") /\ ~OutOfRange(lastOp'.a, lastOp'.b))
          => /\ (lastOp'.ret = "refused") <=> OtherSubjectBlocks(lastOp'.a, lastOp'.b)
             /\ (lastOp'.ret = "accepted") => wall'.accessMatrix[lastOp'.a][lastOp'.b]]_vars

(***************************************************************************)
(* C14.  Write rule: a write with valid indices is accepted exactly when   *)
(* the read of the same pair is accepted in the same state and the subject *)
(* holds no object of a different owner in conflict with the object's      *)
(* owner; when the read refuses, the write is the read's refusal and       *)
(* nothing more; an accepted write leaves the entry set.                   *)
(***************************************************************************)
Tainted(s, o) ==
    \E k \in Objects :
        accessed(s, k) /\ owner(k) # owner(o) /\ conflicts(owner(o), owner(k))

WriteRule ==
    \A s \in Subjects : \A o \in Objects :
        LET r == read(wall, s, o)
            t == write(wall, s, o)
        IN  /\ t.ret <=> (r.ret /\ ~Tainted(s, o))
            /\ ~r.ret => t = r
            /\ t.ret => t.wall.accessMatrix[s][o]

WriteAcceptedBesideOtherFirm ==
    /\ lastOp.op = "write"
    /\ lastOp.ret = "accepted"
    /\ accessed(lastOp.a, lastOp.b)
    /\ \E k \in Objects :
          accessed(lastOp.a, k) /\ owner(k) # owner(lastOp.b)

(***************************************************************************)
(* C15.  Frame: an accepted read or write changes no matrix entry but      *)
(* (subject, object), which it sets; read, write and start leave owners    *)
(* and conflicts alone; addConflictClass leaves the matrix and the owners  *)
(* alone.                                                                  *)
(***************************************************************************)
DecisionFrame ==
    [][/\ ((Called("read") \/ Called("write")) /\ lastOp'.ret = "accepted")
            => /\ wall'.accessMatrix[lastOp'.a][lastOp'.b]
               /\ \A s \in Subjects : \A o \in Objects :
                      <<s, o>> # <<lastOp'.a, lastOp'.b>>
                          => wall'.accessMatrix[s][o] = accessed(s, o)
       /\ (Called("read") \/ Called("write") \/ Called("start"))
            => /\ wall'.objectOwners = wall.objectOwners
               /\ wall'.conflictClasses = wall.conflictClasses
       /\ Called("addConflictClass")
            => /\ wall'.accessMatrix = wall.accessMatrix
               /\ wall'.objectOwners = wall.objectOwners]_vars

OneEntryGranted ==
    /\ lastOp.op \in {"read", "write"}
    /\ lastOp.ret = "accepted"
    /\ accessed(lastOp.a, lastOp.b)
    /\ \E s \in Subjects : \E o \in Objects :
          <<s, o>> # <<lastOp.a, lastOp.b>> /\ ~accessed(s, o)
    /\ \E s \in Subjects : \E o \in Objects :
          <<s, o>> # <<lastOp.a, lastOp.b>> /\ accessed(s, o)

(***************************************************************************)
(* C16.  Reports: reportSubject prints, in ascending object index, exactly *)
(* the objects the subject has accessed, each with its owner; reportObject *)
(* prints, in ascending subject index, exactly the subjects that accessed  *)
(* the object; briefCase prints, in ascending index, exactly the objects   *)
(* of the firm.  None changes the engine, and an out-of-range argument     *)
(* prints no list.                                                         *)
(***************************************************************************)
StrictlyAscending(ids) ==
    \A p \in DOMAIN ids : \A q \in DOMAIN ids : p < q => ids[p] < ids[q]

Range(seq) == {seq[n] : n \in DOMAIN seq}

NothingPrinted ==
    lastOp'.ret = "none" /\ lastOp'.items = <<>> /\ lastOp'.diag

Printed(ids, expected) ==
    /\ lastOp'.ret = "printed"
    /\ ~lastOp'.diag
    /\ StrictlyAscending(ids)
    /\ Range(lastOp'.items) = expected

ReportsExact ==
    [][/\ (Called("reportSubject") \/ Called("reportObject") \/ Called("briefCase"))
            => wall' = wall
       /\ Called("reportSubject")
            => IF lastOp'.a \in Subjects
               THEN Printed([n \in DOMAIN lastOp'.items |-> lastOp'.items[n][1]],
                            {<<o, owner(o)>> : o \in {k \in Objects : accessed(lastOp'.a, k)}})
               ELSE NothingPrinted
       /\ Called("reportObject")
            => IF lastOp'.a \in Objects
               THEN Printed(lastOp'.items, {s \in Subjects : accessed(s, lastOp'.a)})
               ELSE NothingPrinted
       /\ Called("briefCase")
            => IF lastOp'.a \in Firms
               THEN Printed(lastOp'.items, {o \in Objects : owner(o) = lastOp'.a})
               ELSE NothingPrinted]_vars

TwoObjectsReported ==
    /\ lastOp.op = "reportSubject"
    /\ lastOp.ret = "printed"
    /\ Len(lastOp.items) >= 2
    /\ lastOp.items[1][2] # lastOp.items[2][2]

(***************************************************************************)
(* C17.  An accepted read can be repeated: the same read issued again      *)
(* right after, if it returns at all, is accepted and leaves the engine as *)
(* it is.                                                                  *)
(***************************************************************************)
AcceptedReadRepeats ==
    [][(Called("read") /\ lastOp'.ret = "accepted")
          => LET r == read(wall', lastOp'.a, lastOp'.b)
             IN  ~r.fault => (r.ret /\ r.wall = wall')]_vars

(***************************************************************************)
(* C18.  The read decision does not depend on the requester or on what is  *)
(* held elsewhere: any two valid subjects get the same answer for an       *)
(* object, and the answer is the same in every engine that agrees on the   *)
(* object's column of the matrix, on its owner and on the owner's conflict *)
(* set, whatever the other columns and the other owners are and whether    *)
(* another conflict set is empty or full.                                  *)
(***************************************************************************)
Verdict(r) == <<r.ret, r.fault, r.diag>>

\* Engines that differ from the current one outside of what concerns object o.
SameColumn(o) ==
    {[wall EXCEPT !.accessMatrix =
         [s \in Subjects |->
             [k \in Objects |-> IF k = o THEN accessed(s, o) ELSE x[s][k]]]] :
        x \in [Subjects -> [Objects \ {o} -> BOOLEAN]]}

SameOwner(o) ==
    {[wall EXCEPT !.objectOwners =
         [k \in Objects |-> IF k = o THEN owner(o) ELSE x[k]]] :
        x \in [Objects \ {o} -> Firms]}

\* Another firm's conflict set emptied or filled.
SameConflictSet(o) ==
    {[wall EXCEPT !.conflictClasses[g] = c] :
        g \in Firms \ {owner(o)}, c \in {{}, Firms}}

PolicyRefusal(r) == ~r.ret /\ ~r.fault /\ ~r.diag

\* Some valid subject is refused the read of o in engine w.
Blocked(w, o) == \E s \in Subjects : PolicyRefusal(read(w, s, o))

====
